---- MODULE Spec2Model ----
(***************************************************************************)
(* The hash-chained audit log of the barangay records system.              *)
(*                                                                         *)
(* backend/server.js keeps the chain in the AuditLog collection; logAction *)
(* appends a block (tip lookup, timestamp, SHA-256 over the canonical      *)
(* JSON, insert) and GET /api/audit-logs/verify walks the chain in         *)
(* ascending timestamp order.  backend/utils/services.js holds the same    *)
(* logAction for the modular backend.                                      *)
(*                                                                         *)
(* A timestamp is the ISO-8601 string of a millisecond instant; the        *)
(* strings are fixed-width, so their order is the order of the instants,   *)
(* and the model keeps the instant: new Date() reads 1 .. MaxClock, and an *)
(* edited timestamp may also lie before or after these.  A digest is the   *)
(* pair <<"sha256", text>>: SHA-256 is taken to be collision free.         *)
(***************************************************************************)
EXTENDS Integers, Sequences, FiniteSets, TLC

\* ------------------------------------------------------------------ bounds
NumProcs == 2
MaxBlocks == 3
MaxClock == 3
MaxTampers == 1
MaxHandlers == 1
MaxPage == 2
MaxLimit == 1

MaxDeleteBlocks == 1
MaxChanged == 2

\* The 24-hour window of the limiters in clock ticks, the last tick, and the
\* caps on records created by counted requests and on blocks of the limited routes.
WindowTicks == 2
MaxTicks == 2
MaxMade == 3
MaxLimitedBlocks == 1

\* blotterLimiter / documentLimiter: max: 2
MaxHits == 2

\* const limit = parseInt(req.query.limit) || 200
DefaultLimit == 200

Procs == 1..NumProcs

\* ------------------------------------------------- values of the program
\* The reserved previousHash of the first block (32 zeros).
GENESIS == <<"00000000000000000000000000000000">>

\* What reading an absent field of a stored document yields (undefined),
\* one marker per field type.
NoTs == -1
NoStr == "undefined"
NoHash == <<>>

Missing(key) ==
    CASE key = "timestamp" -> NoTs
      [] key \in {"hash", "previousHash"} -> NoHash
      [] OTHER -> NoStr

\* The calls handlers make: logAction(action, module, description, user).
Requests ==
    { [user |-> "alice", action |-> "CREATE", module |-> "Resident",
       description |-> "Added resident: Juan"],
      [user |-> "bob", action |-> "LOGIN", module |-> "Auth",
       description |-> "User logged in: bob"],
      [user |-> "System", action |-> "ARCHIVE", module |-> "Blotter",
       description |-> "Archived case"] }

NoRequest == [user |-> NoStr, action |-> NoStr, module |-> NoStr, description |-> NoStr]

\* ---------------------------------------------------- canonical encoding
\* Faulty variant of dataToHash: the description is left out of the hashed object.
dataToHashNoDescription(b) ==
    << <<"timestamp", b.timestamp>>, <<"user", b.user>>, <<"action", b.action>>,
       <<"module", b.module>>, <<"previousHash", b.previousHash>> >>

\* The object literal that is hashed: keys in the order timestamp, user,
\* action, module, description, previousHash.
dataToHash(b) ==
    << <<"timestamp", b.timestamp>>, <<"user", b.user>>, <<"action", b.action>>,
       <<"module", b.module>>, <<"description", b.description>>,
       <<"previousHash", b.previousHash>> >>

\* JSON.stringify of an object: the properties in insertion order, a
\* property whose value is undefined left out.
JSONstringify(obj) == SelectSeq(obj, LAMBDA kv : kv[2] # Missing(kv[1]))

\* crypto.createHash("sha256").update(text).digest("hex")
SHA256(text) == <<"sha256", text>>

BlockHash(b) == SHA256(JSONstringify(dataToHash(b)))

\* ------------------------------------------------------------ the store
\* Sort key of a document under sort({timestamp: ...}): an absent field
\* sorts before every string.
SortKey(b) == b.timestamp

Max(S) == CHOOSE x \in S : \A y \in S : y <= x
Min(S) == CHOOSE x \in S : \A y \in S : x <= y

\* AuditLog.findOne().sort({timestamp: -1}): a document with the greatest
\* timestamp; which one among equal timestamps is not determined.  0 stands
\* for null (empty collection), otherwise the position in the collection.
TipCandidates(docs) ==
    IF Len(docs) = 0 THEN {0}
    ELSE LET top == Max({SortKey(docs[i]) : i \in 1..Len(docs)})
         IN  {i \in 1..Len(docs) : SortKey(docs[i]) = top}

\* Faulty variant of PrevHashOf: the tip is ignored.
PrevHashAlwaysGenesis(docs, tip) == GENESIS

\* const prevHash = latestLog ? latestLog.hash : "000...0"
PrevHashOf(docs, tip) == IF tip # 0 THEN docs[tip].hash ELSE GENESIS

Perms(n) == {f \in [1..n -> 1..n] : \A i, j \in 1..n : i # j => f[i] # f[j]}

\* AuditLog.find().sort({timestamp: 1}): every ordering of the documents
\* with non-decreasing timestamps (ties in any order).
AscendingOrders(docs) ==
    { [i \in 1..Len(docs) |-> docs[f[i]]] :
        f \in {g \in Perms(Len(docs)) :
                 \A i, j \in 1..Len(docs) :
                    i < j => SortKey(docs[g[i]]) <= SortKey(docs[g[j]])} }

\* The routes behind blotterLimiter and documentLimiter.
LimitedRoutes == {"POST /api/blotters", "POST /api/certificates"}

\* ------------------------------------------------------------ the state
VARIABLES
    store,      \* the AuditLog collection, documents in insertion order
    nextId,     \* the _id the next inserted document gets
    clock,      \* the last instant new Date() returned
    pc,         \* per request: where its logAction call stands
    call,       \* per request: logAction's arguments and locals
    overlapped, \* history: some logAction read the tip while another was in flight
    tipSeen,    \* history, per inserted block: the tip its logAction found and the
                \* number of documents stored at that moment
    verifyRes,  \* the last response of GET /api/audit-logs/verify, and the list it scanned
    tampers,    \* number of direct edits of the collection made so far
    tamper,     \* history: the last direct edit
    hd,         \* per request: the route handler that awaits logAction, and its response
    audit,      \* the last request to /api/audit-logs or /api/audit-logs/verify and
                \* its response
    records,    \* per record collection: the state of one record of it
    del,        \* the DELETE request being served, and its response
    login,      \* the login request being served, and its response
    limiter     \* the blotter and document rate limiters for one key, the time,
                \* and the request to the limited routes being served

chain == <<store, nextId, clock, pc, call, overlapped, tipSeen, verifyRes, tampers, tamper>>
routes == <<records, del, login, limiter>>
vars == <<store, nextId, clock, pc, call, overlapped, tipSeen, verifyRes, tampers, tamper,
          hd, audit, records, del, login, limiter>>

NoCall == [req |-> NoRequest, tip |-> 0, count |-> 0, prevHash |-> NoHash, timestamp |-> NoTs]
NoVerify == [code |-> 0, read |-> FALSE, body |-> <<>>, logs |-> <<>>]
NoTamper == [kind |-> "none", id |-> 0, field |-> "none", pre |-> <<>>]
NoPath == [route |-> "none", path |-> "none", mutates |-> FALSE, logs |-> FALSE, code |-> 0]
NoHandler == [stage |-> "none", path |-> NoPath, calls |-> 0, outcome |-> "none", code |-> 0]
NoQuery == [page |-> 0, limit |-> 0, order |-> "none"]
NoAudit == [endpoint |-> "none", cred |-> "none", query |-> NoQuery, code |-> 0,
            read |-> FALSE, body |-> <<>>]

\* The record collections with a DELETE route, one record of each followed.
Kinds == {"Resident", "Official", "Certificate", "Blotter", "Announcement", "User"}
NoDelete == [route |-> "none", kind |-> "none", cred |-> "none", flag |-> FALSE,
             was |-> "none", code |-> 0]

NoToken == [role |-> "none", username |-> "none"]

\* No request to the limited routes served yet, time 0, nothing counted.
NoLimited == [route |-> "none", cred |-> "none", code |-> 0]
NoLimiter == [now |-> 0, hits |-> [r \in LimitedRoutes |-> 0],
              start |-> [r \in LimitedRoutes |-> 0],
              reset |-> [r \in LimitedRoutes |-> 0],
              made |-> [r \in LimitedRoutes |-> <<>>], last |-> NoLimited]

\* No login request being served.
NoLogin == [endpoint |-> "none", account |-> "none", password |-> FALSE, code |-> 0,
            token |-> "none"]

Init ==
    /\ store = <<>>
    /\ nextId = 1
    /\ clock = 1
    /\ pc = [p \in Procs |-> "idle"]
    /\ call = [p \in Procs |-> NoCall]
    /\ overlapped = FALSE
    /\ tipSeen = <<>>
    /\ verifyRes = NoVerify
    /\ tampers = 0
    /\ tamper = NoTamper
    /\ hd = [p \in Procs |-> NoHandler]
    /\ audit = NoAudit
    /\ records = [k \in Kinds |-> "Active"]
    /\ del = NoDelete
    /\ login = NoLogin
    /\ limiter = NoLimiter

InFlight == {p \in Procs : pc[p] # "idle"}

\* new Date(): a reading of the system clock, never before the last
\* reading; two readings may be equal (same millisecond).
Readings == clock..MaxClock

\* ------------------------------------------------------------ logAction
\* Step 1: await AuditLog.findOne().sort({timestamp: -1}); prevHash.
LogActionTip(p) ==
    /\ pc[p] = "idle"
    /\ tampers = 0
    /\ Len(store) + Cardinality(InFlight) < MaxBlocks
    /\ \E r \in Requests, tip \in TipCandidates(store) :
          call' = [call EXCEPT ![p] =
                      [req |-> r, tip |-> IF tip = 0 THEN 0 ELSE store[tip].id,
                       count |-> Len(store),
                       prevHash |-> PrevHashOf(store, tip), timestamp |-> NoTs]]
    /\ pc' = [pc EXCEPT ![p] = "tip"]
    /\ overlapped' = (overlapped \/ InFlight # {})
    /\ UNCHANGED <<store, nextId, clock, tipSeen, verifyRes, tampers, tamper>>

\* Faulty variant of NewBlock: the insert reads the clock again, so that the
\* stored timestamp is later than the hashed one.
NewBlockRestamped(c, id) ==
    LET fields == [timestamp |-> c.timestamp, user |-> c.req.user,
                   action |-> c.req.action, module |-> c.req.module,
                   description |-> c.req.description, previousHash |-> c.prevHash]
    IN  [id |-> id, timestamp |-> fields.timestamp + 1, user |-> fields.user,
         action |-> fields.action, module |-> fields.module,
         description |-> fields.description, hash |-> BlockHash(fields),
         previousHash |-> fields.previousHash]

\* Steps 2-4: timestamp = new Date().toISOString(); dataToHash; hash.  The
\* insert is issued with exactly these values.
NewBlock(c, id) ==
    LET fields == [timestamp |-> c.timestamp, user |-> c.req.user,
                   action |-> c.req.action, module |-> c.req.module,
                   description |-> c.req.description, previousHash |-> c.prevHash]
    IN  [id |-> id, timestamp |-> fields.timestamp, user |-> fields.user,
         action |-> fields.action, module |-> fields.module,
         description |-> fields.description, hash |-> BlockHash(fields),
         previousHash |-> fields.previousHash]

\* Faulty variant of LogActionStamp: the timestamp is a reading taken before
\* the tip lookup (any instant up to the present one).
LogActionStampEarly(p) ==
    /\ pc[p] = "tip"
    /\ \E now \in Readings :
          /\ clock' = now
          /\ \E early \in 1..now : call' = [call EXCEPT ![p].timestamp = early]
    /\ pc' = [pc EXCEPT ![p] = "hashed"]
    /\ UNCHANGED <<store, nextId, overlapped, tipSeen, verifyRes, tampers, tamper>>

LogActionStamp(p) ==
    /\ pc[p] = "tip"
    /\ \E now \in Readings :
          /\ clock' = now
          /\ call' = [call EXCEPT ![p].timestamp = now]
    /\ pc' = [pc EXCEPT ![p] = "hashed"]
    /\ UNCHANGED <<store, nextId, overlapped, tipSeen, verifyRes, tampers, tamper>>

\* Faulty variant of DuplicateHash: the index on hash is not unique.
DuplicateHashNever(docs, h) == FALSE

\* The unique index on hash: an insert whose hash is already stored fails.
DuplicateHash(docs, h) == \E i \in 1..Len(docs) : docs[i].hash = h

\* Step 5: await AuditLog.create({...}) succeeds.
LogActionSave(p) ==
    /\ pc[p] = "hashed"
    /\ LET b == NewBlock(call[p], nextId)
       IN  /\ ~DuplicateHash(store, b.hash)
           /\ store' = Append(store, b)
           /\ tipSeen' = Append(tipSeen, [id |-> nextId, tip |-> call[p].tip,
                                           count |-> call[p].count])
    /\ nextId' = nextId + 1
    /\ pc' = [pc EXCEPT ![p] = "idle"]
    /\ call' = [call EXCEPT ![p] = NoCall]
    /\ UNCHANGED <<clock, overlapped, verifyRes, tampers, tamper>>

\* Faulty variant of LogActionCatch: the failure path removes the newest
\* stored block.
LogActionCatchRollback(p) ==
    /\ pc[p] = "hashed"
    /\ store' = SubSeq(store, 1, Len(store) - 1)
    /\ pc' = [pc EXCEPT ![p] = "idle"]
    /\ call' = [call EXCEPT ![p] = NoCall]
    /\ UNCHANGED <<nextId, clock, overlapped, tipSeen, verifyRes, tampers, tamper>>

\* Step 5 fails (duplicate hash, storage unavailable): the catch block logs
\* the error and logAction returns; nothing is stored.
LogActionCatch(p) ==
    /\ pc[p] = "hashed"
    /\ pc' = [pc EXCEPT ![p] = "idle"]
    /\ call' = [call EXCEPT ![p] = NoCall]
    /\ UNCHANGED <<store, nextId, clock, overlapped, tipSeen, verifyRes, tampers, tamper>>

\* ------------------------------------------- GET /api/audit-logs/verify
NoCompromise == [index |-> -1, type |-> "none", id |-> 0]

\* Faulty variant of VerifyLoop: the chain link check is missing.
RECURSIVE VerifyLoopNoLink(_, _)
VerifyLoopNoLink(logs, i) ==
    IF i > Len(logs) THEN NoCompromise
    ELSE IF SHA256(JSONstringify(dataToHash(logs[i]))) # logs[i].hash
         THEN [index |-> i - 1, type |-> "Data Tampering", id |-> logs[i].id]
         ELSE VerifyLoopNoLink(logs, i + 1)

\* Faulty variant of VerifyLoop: the chain link is checked before the hash.
RECURSIVE VerifyLoopLinkFirst(_, _)
VerifyLoopLinkFirst(logs, i) ==
    IF i > Len(logs) THEN NoCompromise
    ELSE IF i > 1 /\ logs[i].previousHash # logs[i - 1].hash
         THEN [index |-> i - 1, type |-> "Chain Break", id |-> logs[i].id]
         ELSE IF SHA256(JSONstringify(dataToHash(logs[i]))) # logs[i].hash
         THEN [index |-> i - 1, type |-> "Data Tampering", id |-> logs[i].id]
         ELSE VerifyLoopLinkFirst(logs, i + 1)

\* Faulty variant of VerifyLoop: a block that lacks a field is passed over.
RECURSIVE VerifyLoopSkipMalformed(_, _)
VerifyLoopSkipMalformed(logs, i) ==
    IF i > Len(logs) THEN NoCompromise
    ELSE IF \E f \in {"timestamp", "user", "action", "module", "description",
                       "hash", "previousHash"} : logs[i][f] = Missing(f)
         THEN VerifyLoopSkipMalformed(logs, i + 1)
         ELSE IF SHA256(JSONstringify(dataToHash(logs[i]))) # logs[i].hash
         THEN [index |-> i - 1, type |-> "Data Tampering", id |-> logs[i].id]
         ELSE IF i > 1 /\ logs[i].previousHash # logs[i - 1].hash
         THEN [index |-> i - 1, type |-> "Chain Break", id |-> logs[i].id]
         ELSE VerifyLoopSkipMalformed(logs, i + 1)

\* Faulty variant of VerifyLoop: the first listed block must reference the
\* genesis constant.
RECURSIVE VerifyLoopGenesis(_, _)
VerifyLoopGenesis(logs, i) ==
    IF i > Len(logs) THEN NoCompromise
    ELSE IF SHA256(JSONstringify(dataToHash(logs[i]))) # logs[i].hash
         THEN [index |-> i - 1, type |-> "Data Tampering", id |-> logs[i].id]
         ELSE IF logs[i].previousHash # (IF i > 1 THEN logs[i - 1].hash ELSE GENESIS)
         THEN [index |-> i - 1, type |-> "Chain Break", id |-> logs[i].id]
         ELSE VerifyLoopGenesis(logs, i + 1)

\* The for loop over logs (i counts from 1 here, the reported index from 0):
\* the value of compromisedBlock when the loop ends, NoCompromise for null.
RECURSIVE VerifyLoop(_, _)
VerifyLoop(logs, i) ==
    IF i > Len(logs) THEN NoCompromise
    ELSE LET currentBlock == logs[i]
             calculatedHash == SHA256(JSONstringify(dataToHash(currentBlock)))
         IN  IF calculatedHash # currentBlock.hash
             THEN [index |-> i - 1, type |-> "Data Tampering", id |-> currentBlock.id]
             ELSE IF i > 1 /\ currentBlock.previousHash # logs[i - 1].hash
             THEN [index |-> i - 1, type |-> "Chain Break", id |-> currentBlock.id]
             ELSE VerifyLoop(logs, i + 1)

\* Faulty variant of VerifyResponse: the Compromised body carries no details.
VerifyResponseNoDetails(logs) ==
    IF VerifyLoop(logs, 1) = NoCompromise
    THEN [code |-> 200, read |-> TRUE, logs |-> logs,
          body |-> [status |-> "Secure",
                    message |-> "Blockchain integrity verified. No tampering detected."]]
    ELSE [code |-> 400, read |-> TRUE, logs |-> logs,
          body |-> [status |-> "Compromised", message |-> "Integrity check failed."]]

\* res.json({status: "Secure", ...}) or res.status(400).json({status:
\* "Compromised", ..., details: compromisedBlock})
VerifyResponse(logs) ==
    LET compromisedBlock == VerifyLoop(logs, 1)
    IN  IF compromisedBlock = NoCompromise
        THEN [code |-> 200, read |-> TRUE, logs |-> logs,
              body |-> [status |-> "Secure",
                        message |-> "Blockchain integrity verified. No tampering detected."]]
        ELSE [code |-> 400, read |-> TRUE, logs |-> logs,
              body |-> [status |-> "Compromised", message |-> "Integrity check failed.",
                        details |-> compromisedBlock]]

\* The handler with AuditLog.find().sort({timestamp: 1}) resolving.
Verify ==
    /\ \E logs \in AscendingOrders(store) : verifyRes' = VerifyResponse(logs)
    /\ UNCHANGED <<store, nextId, clock, pc, call, overlapped, tipSeen, tampers, tamper>>

\* The handler with the query rejecting: the catch block answers 500.
VerifyCatch ==
    /\ verifyRes' = [code |-> 500, read |-> FALSE, logs |-> <<>>,
                     body |-> [message |-> "Verification failed", error |-> "err.message"]]
    /\ UNCHANGED <<store, nextId, clock, pc, call, overlapped, tipSeen, tampers, tamper>>

\* ------------------------------------------- direct edits of the collection
\* Not an operation of the API: somebody with access to the database edits
\* or removes a stored document.  The model follows a chain at rest (no
\* logAction in flight, not verified yet) through its edits and the
\* verifications that follow; logAction does not start again afterwards.
ContentFields == {"timestamp", "user", "action", "module", "description"}
BlockFields == ContentFields \cup {"hash", "previousHash"}

TamperValues(field) ==
    CASE field = "timestamp" -> (0..(MaxClock + 1)) \cup {NoTs}
      [] field = "user" -> {"mallory", NoStr}
      [] field = "action" -> {"UPDATE", NoStr}
      [] field = "module" -> {"User", NoStr}
      [] field = "description" -> {"edited", NoStr}
      [] OTHER -> {GENESIS, NoHash}

SetField(b, field, v) == [b EXCEPT ![field] = v]

TamperField ==
    /\ tampers < MaxTampers
    /\ InFlight = {}
    /\ verifyRes = NoVerify
    /\ \E i \in 1..Len(store), field \in BlockFields :
          \E v \in TamperValues(field) :
             /\ store[i][field] # v
             /\ store' = [store EXCEPT ![i] = SetField(store[i], field, v)]
             /\ tamper' = [kind |-> "field", id |-> store[i].id, field |-> field,
                           pre |-> store]
    /\ tampers' = tampers + 1
    /\ UNCHANGED <<nextId, clock, pc, call, overlapped, tipSeen, verifyRes>>

Remove(docs, i) == SubSeq(docs, 1, i - 1) \o SubSeq(docs, i + 1, Len(docs))

TamperDelete ==
    /\ tampers < MaxTampers
    /\ InFlight = {}
    /\ verifyRes = NoVerify
    /\ \E i \in 1..Len(store) :
          /\ store' = Remove(store, i)
          /\ tamper' = [kind |-> "delete", id |-> store[i].id, field |-> "none",
                        pre |-> store]
    /\ tampers' = tampers + 1
    /\ UNCHANGED <<nextId, clock, pc, call, overlapped, tipSeen, verifyRes>>

\* The chain alone: every logAction call of every handler, and the verify
\* handler; the handlers themselves and the middleware stay out of it.
Next ==
    \/ \E p \in Procs : LogActionTip(p) /\ UNCHANGED <<hd, audit, routes>>
    \/ \E p \in Procs : LogActionStamp(p) /\ UNCHANGED <<hd, audit, routes>>
    \/ \E p \in Procs : LogActionSave(p) /\ UNCHANGED <<hd, audit, routes>>
    \/ \E p \in Procs : LogActionCatch(p) /\ UNCHANGED <<hd, audit, routes>>
    \/ Verify /\ UNCHANGED <<hd, audit, routes>>
    \/ VerifyCatch /\ UNCHANGED <<hd, audit, routes>>

Spec == Init /\ [][Next]_vars

\* The API together with direct edits of the collection.
TamperNext ==
    \/ Next
    \/ TamperField /\ UNCHANGED <<hd, audit, routes>>
    \/ TamperDelete /\ UNCHANGED <<hd, audit, routes>>

TamperSpec == Init /\ [][TamperNext]_vars

\* A direct edit that covers its tracks: one content field of a stored
\* document is given another value and the document's hash is recomputed
\* over the changed content (the unique index on hash still applies); the
\* other documents stay as stored.
TamperRehash ==
    /\ tampers < MaxTampers
    /\ InFlight = {}
    /\ verifyRes = NoVerify
    /\ \E i \in 1..Len(store), field \in ContentFields :
          \E v \in TamperValues(field) :
             LET changed == SetField(store[i], field, v)
                 rehashed == SetField(changed, "hash", BlockHash(changed))
             IN  /\ store[i][field] # v
                 /\ ~DuplicateHash(store, rehashed.hash)
                 /\ store' = [store EXCEPT ![i] = rehashed]
                 /\ tamper' = [kind |-> "rehash", id |-> store[i].id, field |-> field,
                               pre |-> store]
    /\ tampers' = tampers + 1
    /\ UNCHANGED <<nextId, clock, pc, call, overlapped, tipSeen, verifyRes>>

\* The API together with edits that recompute the edited block's hash.
RehashNext ==
    \/ Next
    \/ TamperRehash /\ UNCHANGED <<hd, audit, routes>>

RehashSpec == Init /\ [][RehashNext]_vars

\* ------------------------------------------------------ route handlers
\* The paths of four handlers that change records: the route, the path
\* taken, whether the path changes a record collection, whether it reaches
\* await logAction(...), and the status of the response that ends it.
\* POST /api/residents stands for the handlers of the one shape "change the
\* record, await logAction, answer"; the other three are the handlers whose
\* paths differ in whether logAction is called.
HandlerPaths ==
    { [route |-> "POST /api/residents", path |-> "created",
       mutates |-> TRUE, logs |-> TRUE, code |-> 201],
      [route |-> "POST /api/residents", path |-> "create failed",
       mutates |-> FALSE, logs |-> FALSE, code |-> 500],
      [route |-> "POST /api/residents/bulk-import", path |-> "all inserted",
       mutates |-> TRUE, logs |-> TRUE, code |-> 201],
      [route |-> "POST /api/residents/bulk-import", path |-> "duplicates skipped",
       mutates |-> TRUE, logs |-> FALSE, code |-> 200],
      [route |-> "PUT /api/blotters/:id", path |-> "updated",
       mutates |-> TRUE, logs |-> TRUE, code |-> 200],
      [route |-> "PUT /api/blotters/:id", path |-> "not found",
       mutates |-> FALSE, logs |-> FALSE, code |-> 404],
      [route |-> "PUT /announcements/:id", path |-> "EDITED",
       mutates |-> TRUE, logs |-> TRUE, code |-> 200],
      [route |-> "PUT /announcements/:id", path |-> "VIEWED",
       mutates |-> TRUE, logs |-> FALSE, code |-> 200] }

\* The requests a handler is serving.
Serving == {p \in Procs : hd[p].stage # "none"}

\* The request arrives and the handler runs up to its await logAction(...),
\* or, on a path without that call, up to its response.
HandlerBegin(p) ==
    /\ hd[p].stage = "none"
    /\ pc[p] = "idle"
    /\ Cardinality(Serving) < MaxHandlers
    /\ \E path \in HandlerPaths :
          IF path.logs
          THEN /\ Len(store) + Cardinality(Serving) < MaxBlocks
               /\ hd' = [hd EXCEPT ![p] = [stage |-> "call", path |-> path, calls |-> 0,
                                           outcome |-> "none", code |-> 0]]
          ELSE hd' = [hd EXCEPT ![p] = [stage |-> "sent", path |-> path, calls |-> 0,
                                        outcome |-> "none", code |-> path.code]]
    /\ UNCHANGED <<chain, audit, routes>>

\* logAction is entered and its tip lookup resolves.
HandlerLogActionTip(p) ==
    /\ hd[p].stage = "call"
    /\ LogActionTip(p)
    /\ hd' = [hd EXCEPT ![p].stage = "await", ![p].calls = @ + 1]
    /\ UNCHANGED <<audit, routes>>

\* Step 1 fails (storage unavailable): the catch block logs the error and
\* logAction returns; no timestamp is taken and nothing is stored.
LogActionTipCatch(p) ==
    /\ pc[p] = "idle"
    /\ UNCHANGED chain

HandlerLogActionTipCatch(p) ==
    /\ hd[p].stage = "call"
    /\ LogActionTipCatch(p)
    /\ hd' = [hd EXCEPT ![p].stage = "back", ![p].calls = @ + 1, ![p].outcome = "failed"]
    /\ UNCHANGED <<audit, routes>>

HandlerLogActionStamp(p) ==
    /\ hd[p].stage = "await"
    /\ LogActionStamp(p)
    /\ UNCHANGED <<hd, audit, routes>>

HandlerLogActionSave(p) ==
    /\ hd[p].stage = "await"
    /\ LogActionSave(p)
    /\ hd' = [hd EXCEPT ![p].stage = "back", ![p].outcome = "saved"]
    /\ UNCHANGED <<audit, routes>>

HandlerLogActionCatch(p) ==
    /\ hd[p].stage = "await"
    /\ LogActionCatch(p)
    /\ hd' = [hd EXCEPT ![p].stage = "back", ![p].outcome = "failed"]
    /\ UNCHANGED <<audit, routes>>

\* Faulty variant of logActionReturn: the catch block throws the error on.
logActionRethrow(outcome) == IF outcome = "failed" THEN "thrown" ELSE "returned"

\* How the awaited logAction call ends for the handler: the whole body is
\* inside try, and the catch block only logs.
logActionReturn(outcome) == "returned"

\* The status the handler answers with once logAction is back: the path's
\* own response, or the 500 of the handler's catch block had the call thrown.
HandlerResponse(path, ended) == IF ended = "thrown" THEN 500 ELSE path.code

HandlerRespond(p) ==
    /\ hd[p].stage = "back"
    /\ hd' = [hd EXCEPT ![p].stage = "sent",
                        ![p].code = HandlerResponse(hd[p].path,
                                                    logActionReturn(hd[p].outcome))]
    /\ UNCHANGED <<chain, audit, routes>>

\* The response is out; the request is over.
HandlerEnd(p) ==
    /\ hd[p].stage = "sent"
    /\ hd' = [hd EXCEPT ![p] = NoHandler]
    /\ UNCHANGED <<chain, audit, routes>>

HandlerNext ==
    \/ \E p \in Procs : HandlerBegin(p)
    \/ \E p \in Procs : HandlerLogActionTip(p)
    \/ \E p \in Procs : HandlerLogActionTipCatch(p)
    \/ \E p \in Procs : HandlerLogActionStamp(p)
    \/ \E p \in Procs : HandlerLogActionSave(p)
    \/ \E p \in Procs : HandlerLogActionCatch(p)
    \/ \E p \in Procs : HandlerRespond(p)
    \/ \E p \in Procs : HandlerEnd(p)

\* The handlers with their logAction calls.
HandlerSpec == Init /\ [][HandlerNext]_vars

\* ---------------------------------------------------- the audit endpoints
\* The Authorization header of a request: none, a token jwt.verify rejects,
\* or a token this system signed, which carries the role of its user.
Creds == {"none", "invalid", "admin", "staff", "resident"}

\* authMiddleware: the status it answers with, 0 when it calls next().
authMiddleware(cred) == IF cred \in {"none", "invalid"} THEN 401 ELSE 0

\* Faulty variant of adminOnly: staff is let through as well.
adminOrStaffOnly(cred) == IF cred \notin {"admin", "staff"} THEN 403 ELSE 0

\* adminOnly: the status it answers with, 0 when it calls next().
adminOnly(cred) == IF cred # "admin" THEN 403 ELSE 0

\* app.get(path, authMiddleware, adminOnly, handler): the status of the
\* middleware that ends the request, 0 when the handler is reached.
Rejected(cred) ==
    IF authMiddleware(cred) # 0 THEN authMiddleware(cred) ELSE adminOnly(cred)

\* The query string of a list request: page and limit (0 when absent or not
\* a number), and the direction the caller would like.
Queries == [page : 1..MaxPage, limit : 0..MaxLimit, order : {"asc", "desc"}]

\* parseInt(value) || fallback
ParseOr(value, fallback) == IF value = 0 THEN fallback ELSE value

\* AuditLog.find().sort({timestamp: -1}): every ordering of the documents
\* with non-increasing timestamps (ties in any order).
DescendingOrders(docs) ==
    { [i \in 1..Len(docs) |-> docs[f[i]]] :
        f \in {g \in Perms(Len(docs)) :
                 \A i, j \in 1..Len(docs) :
                    i < j => SortKey(docs[g[i]]) >= SortKey(docs[g[j]])} }

\* .skip(skip).limit(limit) of a listing.
SkipLimit(logs, skip, limit) ==
    SubSeq(logs, skip + 1, IF skip + limit < Len(logs) THEN skip + limit ELSE Len(logs))

\* GET /api/audit-logs of server.js: what the handler answers for a query
\* when the sort lists the documents as logs.
AuditLogsPage(logs, q) ==
    LET page == ParseOr(q.page, 1)
        limit == ParseOr(q.limit, DefaultLimit)
    IN  SkipLimit(logs, (page - 1) * limit, limit)

\* GET /audit-logs of the modular backend: find().sort({timestamp: -1})
\* .limit(200), the query string not read.
RouterAuditLogsPage(logs, q) == SkipLimit(logs, 0, DefaultLimit)

Refusal(endpoint, cred) ==
    [endpoint |-> endpoint, cred |-> cred, query |-> NoQuery, code |-> Rejected(cred),
     read |-> FALSE, body |-> <<>>]

GetAuditLogs(cred, q) ==
    /\ audit = NoAudit
    /\ IF Rejected(cred) # 0
       THEN audit' = Refusal("list", cred)
       ELSE \E logs \in DescendingOrders(store) :
               audit' = [endpoint |-> "list", cred |-> cred, query |-> q, code |-> 200,
                         read |-> TRUE, body |-> AuditLogsPage(logs, q)]
    /\ UNCHANGED <<chain, hd, routes>>

RouterGetAuditLogs(cred, q) ==
    /\ audit = NoAudit
    /\ IF Rejected(cred) # 0
       THEN audit' = Refusal("router list", cred)
       ELSE \E logs \in DescendingOrders(store) :
               audit' = [endpoint |-> "router list", cred |-> cred, query |-> NoQuery,
                         code |-> 200, read |-> TRUE, body |-> RouterAuditLogsPage(logs, q)]
    /\ UNCHANGED <<chain, hd, routes>>

\* GET /api/audit-logs/verify behind its middleware.
GetAuditLogsVerify(cred) ==
    /\ audit = NoAudit
    /\ IF Rejected(cred) # 0
       THEN audit' = Refusal("verify", cred)
       ELSE \E logs \in AscendingOrders(store) :
               audit' = [endpoint |-> "verify", cred |-> cred, query |-> NoQuery,
                         code |-> VerifyResponse(logs).code, read |-> TRUE,
                         body |-> VerifyResponse(logs).body]
    /\ UNCHANGED <<chain, hd, routes>>

\* The handler is reached and its query rejects: the catch block answers 500.
AuditCatch(endpoint, cred) ==
    /\ audit = NoAudit
    /\ Rejected(cred) = 0
    /\ audit' = [endpoint |-> endpoint, cred |-> cred, query |-> NoQuery, code |-> 500,
                 read |-> FALSE, body |-> <<>>]
    /\ UNCHANGED <<chain, hd, routes>>

\* The response is out; the request is over.
AuditEnd ==
    /\ audit # NoAudit
    /\ audit' = NoAudit
    /\ UNCHANGED <<chain, hd, routes>>

\* Every route as far as it touches the AuditLog collection: the handlers
\* that change records through their logAction call, the two list routes
\* and the verify route behind their middleware.  (GET /api/stats only
\* counts the documents.)
AuditNext ==
    \/ \E p \in Procs : LogActionTip(p) /\ UNCHANGED <<hd, audit, routes>>
    \/ \E p \in Procs : LogActionStamp(p) /\ UNCHANGED <<hd, audit, routes>>
    \/ \E p \in Procs : LogActionSave(p) /\ UNCHANGED <<hd, audit, routes>>
    \/ \E p \in Procs : LogActionCatch(p) /\ UNCHANGED <<hd, audit, routes>>
    \/ \E cred \in Creds, q \in Queries : GetAuditLogs(cred, q)
    \/ \E cred \in Creds, q \in Queries : RouterGetAuditLogs(cred, q)
    \/ \E cred \in Creds : GetAuditLogsVerify(cred)
    \/ \E cred \in Creds, endpoint \in {"list", "router list", "verify"} :
          AuditCatch(endpoint, cred)
    \/ AuditEnd

AuditSpec == Init /\ [][AuditNext]_vars

\* ------------------------------------------- await logAction(...), whole
\* One logAction call from its tip lookup to its return with no other call
\* in between (the record routes below are followed one request at a time):
\* steps 1-4, then the insert succeeds or the catch block swallows its
\* failure.
LogActionWhole(r) ==
    /\ InFlight = {}
    /\ tampers = 0
    /\ \E tip \in TipCandidates(store), now \in Readings :
          LET c == [req |-> r, tip |-> IF tip = 0 THEN 0 ELSE store[tip].id,
                    count |-> Len(store), prevHash |-> PrevHashOf(store, tip),
                    timestamp |-> now]
              b == NewBlock(c, nextId)
          IN  /\ clock' = now
              /\ \/ /\ ~DuplicateHash(store, b.hash)
                    /\ store' = Append(store, b)
                    /\ tipSeen' = Append(tipSeen, [id |-> nextId, tip |-> c.tip,
                                                    count |-> c.count])
                    /\ nextId' = nextId + 1
                 \/ UNCHANGED <<store, tipSeen, nextId>>
    /\ UNCHANGED <<pc, call, overlapped, verifyRes, tampers, tamper>>

\* req.user.username of a token.
Username(cred) == IF cred = "admin" THEN "admin1" ELSE IF cred = "staff" THEN "staff1" ELSE "juan"

\* ------------------------------------------------------ the DELETE routes
\* adminOrStaff: the status it answers with, 0 when it calls next().
adminOrStaff(cred) == IF cred \notin {"admin", "staff"} THEN 403 ELSE 0

\* Every DELETE route of the two backends that names a record: the
\* collection it works on, the role middleware behind authMiddleware, what
\* the handler does with the record ("archive": findByIdAndUpdate(id,
\* {status: "Archived"}); "delete": findByIdAndDelete(id); or a choice by a
\* query flag), and the module it logs under.  The recycle-bin route picks
\* the collection by the type it is sent.
DeleteRoutes ==
    { [route |-> "DELETE /api/residents/:id", kind |-> "Resident",
       guard |-> "adminOrStaff", mode |-> "archive", module |-> "Resident"],
      [route |-> "DELETE /api/residents/permanent/:id", kind |-> "Resident",
       guard |-> "adminOnly", mode |-> "delete", module |-> "Resident"],
      [route |-> "DELETE /api/officials/:id", kind |-> "Official",
       guard |-> "adminOrStaff", mode |-> "archive", module |-> "Official"],
      [route |-> "DELETE /api/officials/permanent/:id", kind |-> "Official",
       guard |-> "adminOnly", mode |-> "delete", module |-> "Official"],
      [route |-> "DELETE /api/certificates/:id", kind |-> "Certificate",
       guard |-> "adminOrStaff", mode |-> "permanent and admin", module |-> "Documents"],
      [route |-> "DELETE /api/announcements/:id", kind |-> "Announcement",
       guard |-> "adminOrStaff", mode |-> "archive", module |-> "Announcement"],
      [route |-> "DELETE /api/announcements/permanent/:id", kind |-> "Announcement",
       guard |-> "adminOnly", mode |-> "delete", module |-> "Announcement"],
      [route |-> "DELETE /announcements/:id", kind |-> "Announcement",
       guard |-> "adminOnly", mode |-> "hardDelete", module |-> "Announcement"],
      [route |-> "DELETE /residents/:id", kind |-> "Resident",
       guard |-> "adminOnly", mode |-> "archive", module |-> "Resident"],
      [route |-> "DELETE /officials/:id", kind |-> "Official",
       guard |-> "adminOnly", mode |-> "archive", module |-> "Official"],
      [route |-> "DELETE /certificates/:id", kind |-> "Certificate",
       guard |-> "adminOrStaff", mode |-> "archive", module |-> "Documents"],
      [route |-> "DELETE /blotters/:id", kind |-> "Blotter",
       guard |-> "adminOnly", mode |-> "archive", module |-> "Blotter"],
      [route |-> "DELETE /users/:id", kind |-> "User",
       guard |-> "adminOnly", mode |-> "delete", module |-> "UserManagement"] }
    \cup { [route |-> "DELETE /recycle-bin/delete/:id", kind |-> k,
            guard |-> "adminOnly", mode |-> "delete", module |-> "RecycleBin"] :
              k \in Kinds \ {"User"} }
    \cup { [route |-> "DELETE /recycle-bin/delete/:id", kind |-> "none",
            guard |-> "adminOnly", mode |-> "invalid type", module |-> "RecycleBin"] }

\* The values of the route's query flag (permanent, hardDelete) that make
\* a difference.
Flags(r) == IF r.mode \in {"permanent and admin", "hardDelete"} THEN BOOLEAN ELSE {FALSE}

\* The status of the middleware that ends the request, 0 when the handler
\* is reached.
DeleteRejected(r, cred) ==
    IF authMiddleware(cred) # 0 THEN authMiddleware(cred)
    ELSE IF r.guard = "adminOnly" THEN adminOnly(cred) ELSE adminOrStaff(cred)

\* Faulty variant of DeleteEffect: the certificates route deletes on the
\* permanent flag alone.
DeleteEffectAnyRole(r, cred, flag) ==
    CASE r.mode = "permanent and admin" -> IF flag THEN "delete" ELSE "archive"
      [] r.mode = "hardDelete" -> IF flag THEN "delete" ELSE "archive"
      [] OTHER -> r.mode

\* What the handler does with the record: if (permanent === 'true' &&
\* req.user.role === 'admin') on the certificates route, if (hardDelete ===
\* 'true') on the modular announcements route, fixed on the others.
DeleteEffect(r, cred, flag) ==
    CASE r.mode = "permanent and admin" ->
            IF flag /\ cred = "admin" THEN "delete" ELSE "archive"
      [] r.mode = "hardDelete" -> IF flag THEN "delete" ELSE "archive"
      [] OTHER -> r.mode

\* The record is not in the collection: if (!record) return
\* res.status(404); the users route reads user.username of null and its
\* catch block answers 500.  (The recycle-bin route does not look at what
\* findByIdAndDelete returned.)
NotFound(r) == IF r.kind = "User" THEN 500 ELSE 404

\* logAction(action, module, description, req.user.username) of a DELETE
\* handler; the description names the record.
DeleteLogRequest(r, cred, effect) ==
    [user |-> Username(cred),
     action |-> IF effect = "delete" THEN "DELETE PERMANENT"
                ELSE IF r.route = "DELETE /certificates/:id" THEN "DELETE" ELSE "ARCHIVE",
     module |-> r.module,
     description |-> r.kind]

DeleteResponse(r, cred, flag, code) ==
    [route |-> r.route, kind |-> r.kind, cred |-> cred, flag |-> flag,
     was |-> IF r.kind \in Kinds THEN records[r.kind] ELSE "none", code |-> code]

\* The collections whose record has been archived or removed.
Changed == {k \in Kinds : records[k] # "Active"}

\* A DELETE request from the middleware to the response.
DeleteRequest(r, cred, flag) ==
    /\ del = NoDelete
    /\ LET effect == DeleteEffect(r, cred, flag)
       IN  IF DeleteRejected(r, cred) # 0
           THEN /\ del' = DeleteResponse(r, cred, flag, DeleteRejected(r, cred))
                /\ UNCHANGED <<chain, records>>
           ELSE IF effect = "invalid type"
           THEN /\ del' = DeleteResponse(r, cred, flag, 400)
                /\ UNCHANGED <<chain, records>>
           ELSE IF records[r.kind] = "removed" /\ r.route # "DELETE /recycle-bin/delete/:id"
           THEN /\ del' = DeleteResponse(r, cred, flag, NotFound(r))
                /\ UNCHANGED <<chain, records>>
           ELSE /\ Len(store) < MaxDeleteBlocks
                /\ Cardinality(Changed \cup {r.kind}) <= MaxChanged
                /\ records' = [records EXCEPT ![r.kind] =
                                  IF effect = "delete" THEN "removed" ELSE "Archived"]
                /\ LogActionWhole(DeleteLogRequest(r, cred, effect))
                /\ del' = DeleteResponse(r, cred, flag, 200)
    /\ UNCHANGED <<hd, audit, login, limiter>>

\* The record operation rejects (storage unavailable): the catch block
\* answers 500 and nothing is changed.
DeleteCatch(r, cred, flag) ==
    /\ del = NoDelete
    /\ DeleteRejected(r, cred) = 0
    /\ DeleteEffect(r, cred, flag) # "invalid type"
    /\ del' = DeleteResponse(r, cred, flag, 500)
    /\ UNCHANGED <<chain, records, hd, audit, login, limiter>>

\* The response is out; the request is over.
DeleteEnd ==
    /\ del # NoDelete
    /\ del' = NoDelete
    /\ UNCHANGED <<chain, records, hd, audit, login, limiter>>

DeleteNext ==
    \/ \E r \in DeleteRoutes, cred \in Creds : \E flag \in Flags(r) :
          DeleteRequest(r, cred, flag)
    \/ \E r \in DeleteRoutes, cred \in Creds : \E flag \in Flags(r) :
          DeleteCatch(r, cred, flag)
    \/ DeleteEnd

\* The DELETE routes, one request at a time.
DeleteSpec == Init /\ [][DeleteNext]_vars

\* ------------------------------------------------------- the login routes
\* The User collection: accounts of each role, active and banned.
Accounts ==
    { [username |-> "admin1", role |-> "admin", isActive |-> TRUE],
      [username |-> "staff1", role |-> "staff", isActive |-> TRUE],
      [username |-> "staff2", role |-> "staff", isActive |-> FALSE],
      [username |-> "juan", role |-> "resident", isActive |-> TRUE],
      [username |-> "pedro", role |-> "resident", isActive |-> FALSE] }

NoUser == [username |-> "none", role |-> "none", isActive |-> FALSE]

\* await User.findOne({username}): the account, NoUser for null.
FindUser(username) ==
    IF \E a \in Accounts : a.username = username
    THEN CHOOSE a \in Accounts : a.username = username
    ELSE NoUser

LoginEndpoints == {"POST /api/auth/login", "POST /api/auth/resident-login"}

\* Faulty variant of LoginOutcome: the isActive check is missing.
LoginOutcomeNoBanCheck(endpoint, user, password) ==
    IF user = NoUser \/ ~password THEN 400
    ELSE IF endpoint = "POST /api/auth/resident-login" /\ user.role # "resident" THEN 403
    ELSE 200

\* The early returns of the two handlers, in their order; 200 when none is
\* taken.  password: bcrypt.compare(password, user.password).
LoginOutcome(endpoint, user, password) ==
    IF user = NoUser \/ ~password THEN 400
    ELSE IF endpoint = "POST /api/auth/resident-login" /\ user.role # "resident" THEN 403
    ELSE IF user.isActive = FALSE THEN 403
    ELSE 200

\* jwt.sign({id, role, username, redirectPath}, JWT_SECRET, ...)
SignToken(user) == [role |-> user.role, username |-> user.username]

\* logAction("LOGIN", "Auth", `User logged in: ${username}`, username)
LoginLogRequest(endpoint, username) ==
    [user |-> username, action |-> "LOGIN", module |-> "Auth",
     description |-> IF endpoint = "POST /api/auth/resident-login"
                     THEN "Resident logged in" ELSE "User logged in"]

\* A login request from its first line to its response.
LoginRequest(endpoint, username, password) ==
    /\ login = NoLogin
    /\ LET user == FindUser(username)
           code == LoginOutcome(endpoint, user, password)
       IN  IF code # 200
           THEN /\ login' = [endpoint |-> endpoint, account |-> username,
                             password |-> password, code |-> code, token |-> NoToken]
                /\ UNCHANGED chain
           ELSE /\ Len(store) < MaxBlocks
                /\ LogActionWhole(LoginLogRequest(endpoint, username))
                /\ login' = [endpoint |-> endpoint, account |-> username,
                             password |-> password, code |-> 200,
                             token |-> SignToken(user)]
    /\ UNCHANGED <<hd, audit, records, del, limiter>>

\* User.findOne or bcrypt.compare rejects: the catch block answers 500.
LoginCatch(endpoint, username, password) ==
    /\ login = NoLogin
    /\ login' = [endpoint |-> endpoint, account |-> username, password |-> password,
                 code |-> 500, token |-> NoToken]
    /\ UNCHANGED <<chain, hd, audit, records, del, limiter>>

\* The response is out; the request is over.
LoginEnd ==
    /\ login # NoLogin
    /\ login' = NoLogin
    /\ UNCHANGED <<chain, hd, audit, records, del, limiter>>

LoginNext ==
    \/ \E endpoint \in LoginEndpoints, a \in Accounts \cup {NoUser}, password \in BOOLEAN :
          LoginRequest(endpoint, a.username, password)
    \/ \E endpoint \in LoginEndpoints, a \in Accounts \cup {NoUser}, password \in BOOLEAN :
          LoginCatch(endpoint, a.username, password)
    \/ LoginEnd

\* The login routes, one request at a time.
LoginSpec == Init /\ [][LoginNext]_vars

\* ----------------------------------------------------- the limited routes
\* skip: skipIfAdmin -- a token that verifies and carries role admin or staff.
skipIfAdmin(cred) == cred \in {"admin", "staff"}

\* The module each limited route logs its CREATE under.
LimitedModule(route) == IF route = "POST /api/blotters" THEN "Blotter" ELSE "Documents"

\* logAction("CREATE", module, ..., userLogger)
LimitedLogRequest(route, cred) ==
    [user |-> Username(cred), action |-> "CREATE", module |-> LimitedModule(route),
     description |-> IF route = "POST /api/blotters" THEN "Filed case" ELSE "Request"]

\* Faulty variant of LimiterRejects: one request too many is let through.
LimiterRejectsLate(totalHits) == totalHits > MaxHits + 1

\* rateLimit({max: 2}): the request whose count exceeds max is answered 429.
LimiterRejects(totalHits) == totalHits > MaxHits

\* The handler's answer: 201 / 200 after the record is created; a request
\* that fails before the record exists gets 400 (negative age) or 500.
LimitedCode(route, ok) ==
    IF route = "POST /api/blotters" THEN (IF ok THEN 201 ELSE 500)
    ELSE (IF ok THEN 200 ELSE 400)

\* The records created so far by counted requests, on all limited routes.
MadeCount ==
    Len(limiter.made["POST /api/blotters"]) + Len(limiter.made["POST /api/certificates"])

\* The handler behind the limiter: Model.create, logAction, response.
\* counted: the creation is entered in the route's list of creations.
LimitedHandler(route, cred, ok, counted, lim) ==
    IF ~ok
    THEN /\ limiter' = [lim EXCEPT !.last = [route |-> route, cred |-> cred,
                                              code |-> LimitedCode(route, FALSE)]]
         /\ UNCHANGED chain
    ELSE /\ Len(store) < MaxLimitedBlocks
         /\ LogActionWhole(LimitedLogRequest(route, cred))
         /\ limiter' =
              [lim EXCEPT !.last = [route |-> route, cred |-> cred,
                                    code |-> LimitedCode(route, TRUE)],
                          !.made[route] =
                              IF counted
                              THEN Append(@, [at |-> lim.now,
                                              logged |-> Len(store') > Len(store)])
                              ELSE @]

\* A request to a limited route: the limiter middleware, then the handler.
\* A skipped request goes straight to the handler.  A counted request opens
\* a new window when the route's window is over (the counter restarts and
\* the window ends at most windowMs later), is counted, and is answered 429
\* when its count exceeds max.
LimitedRequest(route, cred, ok) ==
    /\ limiter.last = NoLimited
    /\ IF skipIfAdmin(cred)
       THEN LimitedHandler(route, cred, ok, FALSE, limiter)
       ELSE \E end \in (limiter.now + 1)..(limiter.now + WindowTicks) :
              LET fresh == limiter.now >= limiter.reset[route]
                  totalHits == IF fresh THEN 1
                               ELSE IF limiter.hits[route] > MaxHits THEN MaxHits + 1
                               ELSE limiter.hits[route] + 1
                  lim == [limiter EXCEPT
                            !.hits[route] = totalHits,
                            !.start[route] = IF fresh THEN limiter.now ELSE @,
                            !.reset[route] = IF fresh THEN end ELSE @]
              IN  /\ ~fresh => end = limiter.now + 1
                  /\ IF LimiterRejects(totalHits)
                     THEN /\ limiter' = [lim EXCEPT !.last = [route |-> route,
                                                   cred |-> cred, code |-> 429]]
                          /\ UNCHANGED chain
                     ELSE /\ MadeCount < MaxMade
                          /\ LimitedHandler(route, cred, ok, TRUE, lim)
    /\ UNCHANGED <<hd, audit, records, del, login>>

\* The response is out; the request is over.
LimitedEnd ==
    /\ limiter.last # NoLimited
    /\ limiter' = [limiter EXCEPT !.last = NoLimited]
    /\ UNCHANGED <<chain, hd, audit, records, del, login>>

\* Time passes between requests.
LimiterTick ==
    /\ limiter.last = NoLimited
    /\ limiter.now < MaxTicks
    /\ limiter' = [limiter EXCEPT !.now = @ + 1]
    /\ UNCHANGED <<chain, hd, audit, records, del, login>>

LimitedNext ==
    \/ \E route \in LimitedRoutes, cred \in Creds, ok \in BOOLEAN :
          LimitedRequest(route, cred, ok)
    \/ LimitedEnd
    \/ LimiterTick

\* The limited routes, one request at a time, from one rate-limit key.
LimitedSpec == Init /\ [][LimitedNext]_vars

\* ------------------------------------------------------------ the claims
Blocks == {store[i] : i \in 1..Len(store)}

\* C1. Chain linkage: when the logAction calls ran one after another (no
\* call read the tip while another was in flight), every block after the
\* first, in append order, has previousHash equal to the hash of the block
\* appended just before it.
C1_ChainLinkage ==
    ~overlapped =>
        \A i \in 2..Len(store) : store[i].previousHash = store[i - 1].hash

\* C2. No fork under concurrency: the store never holds two distinct blocks
\* with the same previousHash.
C2_NoFork ==
    \A i, j \in 1..Len(store) :
        i # j => store[i].previousHash # store[j].previousHash

\* C3. Predecessor invariant: in every reachable state, in every listing of
\* the blocks by ascending timestamp, each block but the first has
\* previousHash equal to the hash of the block listed just before it.
C3_PredecessorInvariant ==
    \A logs \in AscendingOrders(store) :
        \A i \in 2..Len(logs) : logs[i].previousHash = logs[i - 1].hash

\* C4. Genesis correctness: a block's previousHash is the genesis constant
\* exactly when the tip lookup of its logAction found the store empty.
C4_GenesisCorrectness ==
    /\ Len(tipSeen) = Len(store)
    /\ \A i \in 1..Len(store) :
          /\ tipSeen[i].id = store[i].id
          /\ (store[i].previousHash = GENESIS) <=> (tipSeen[i].count = 0)

\* C4 witness: one append found the store empty and another found it
\* non-empty, and both are stored.
C4_Witness ==
    /\ \E i \in 1..Len(store) : tipSeen[i].count = 0 /\ store[i].previousHash = GENESIS
    /\ \E i \in 1..Len(store) : tipSeen[i].count > 0 /\ store[i].previousHash # GENESIS

\* C5. Single genesis: a non-empty chain has exactly one block whose
\* previousHash is the genesis constant, and that block has the oldest
\* timestamp.
C5_SingleGenesis ==
    Len(store) > 0 =>
        LET gen == {i \in 1..Len(store) : store[i].previousHash = GENESIS}
        IN  /\ Cardinality(gen) = 1
            /\ \A i \in gen, j \in 1..Len(store) :
                  store[i].timestamp <= store[j].timestamp

\* C6. A chain built only by logAction calls that ran one after another
\* verifies: every verification that read the chain answers Secure.
C6_AppendedChainSecure ==
    (~overlapped /\ tampers = 0 /\ verifyRes.read) => verifyRes.body.status = "Secure"

\* ---------------------------------------------- chains and their edits
DistinctTimestamps(docs) ==
    \A i, j \in 1..Len(docs) : i # j => docs[i].timestamp # docs[j].timestamp

\* A valid chain: the timestamps order it uniquely, and in that order every
\* block carries the hash of its own fields and of its predecessor.
ValidChain(docs) ==
    /\ DistinctTimestamps(docs)
    /\ \A i \in 1..Len(docs) : docs[i].timestamp # NoTs
    /\ \A logs \in AscendingOrders(docs) :
          \A i \in 1..Len(logs) :
             /\ logs[i].hash = BlockHash(logs[i])
             /\ i > 1 => logs[i].previousHash = logs[i - 1].hash

\* The listing by ascending timestamp, and the place (from 1) of a block in it.
Sorted(docs) == CHOOSE logs \in AscendingOrders(docs) : TRUE
PlaceOf(docs, id) == CHOOSE i \in 1..Len(docs) : Sorted(docs)[i].id = id

HashFails(logs, i) == logs[i].hash # BlockHash(logs[i])
LinkFails(logs, i) == i > 1 /\ logs[i].previousHash # logs[i - 1].hash
Failing(logs) == {i \in 1..Len(logs) : HashFails(logs, i) \/ LinkFails(logs, i)}
BrokenLinks(logs) == {i \in 1..Len(logs) : LinkFails(logs, i)}

Compromised(type, index) ==
    /\ verifyRes.body.status = "Compromised"
    /\ verifyRes.body.details.type = type
    /\ verifyRes.body.details.index = index

\* The last edit gave one content field of one block another value, the
\* chain was valid before, and a verification has read the edited chain.
FieldChanged(fields) ==
    /\ tamper.kind = "field"
    /\ tamper.field \in fields
    /\ ValidChain(tamper.pre)
    /\ \A i \in 1..Len(store) :
          store[i].id = tamper.id => store[i][tamper.field] # Missing(tamper.field)
    /\ verifyRes.read

\* The edited block is listed at the place it had before the edit.
PlaceKept ==
    /\ DistinctTimestamps(store)
    /\ PlaceOf(store, tamper.id) = PlaceOf(tamper.pre, tamper.id)

\* What remains of C1, C3 and C6 when no two blocks share a timestamp and
\* the calls ran one after another: the chain is valid, in append order and
\* in timestamp order, and every verification that read it answered Secure.
SequentialDistinctChain ==
    (~overlapped /\ tampers = 0 /\ DistinctTimestamps(store)) =>
        /\ ValidChain(store)
        /\ Sorted(store) = store
        /\ verifyRes.read => verifyRes.body.status = "Secure"

\* C7 as claimed. Tamper detection: changing any single one of timestamp,
\* user, action, module or description of the block at index i of a valid
\* chain makes verification report Compromised, Data Tampering, index i.
C7_TamperDetectionAnyField ==
    FieldChanged(ContentFields) =>
        Compromised("Data Tampering", PlaceOf(tamper.pre, tamper.id) - 1)

\* C7 as amended. Tamper detection: changing any single one of user, action,
\* module or description of the block at index i of a valid chain, or its
\* timestamp to a value that leaves the block at index i, makes verification
\* report Compromised, Data Tampering, index i, for that block.
C7_TamperDetection ==
    (/\ FieldChanged(ContentFields)
     /\ tamper.field = "timestamp" => PlaceKept) =>
        /\ Compromised("Data Tampering", PlaceOf(tamper.pre, tamper.id) - 1)
        /\ verifyRes.body.details.id = tamper.id

\* C7 witness: the description of the middle block of a valid three-block
\* chain was changed in storage, and verification reported it at index 1.
C7_Witness ==
    /\ FieldChanged({"description"})
    /\ Len(tamper.pre) = 3
    /\ PlaceOf(tamper.pre, tamper.id) = 2
    /\ Compromised("Data Tampering", 1)

\* A middle block of a valid chain of at least three blocks was deleted, or
\* was moved (its timestamp now sorts it to another place), and a
\* verification has read the chain since.
MiddleBlock ==
    /\ ValidChain(tamper.pre)
    /\ Len(tamper.pre) >= 3
    /\ PlaceOf(tamper.pre, tamper.id) \notin {1, Len(tamper.pre)}
    /\ verifyRes.read

MiddleDeleted == tamper.kind = "delete" /\ MiddleBlock

MiddleMoved ==
    /\ tamper.kind = "field"
    /\ tamper.field = "timestamp"
    /\ MiddleBlock
    /\ DistinctTimestamps(store)
    /\ \A i \in 1..Len(store) : store[i].timestamp # NoTs
    /\ PlaceOf(store, tamper.id) # PlaceOf(tamper.pre, tamper.id)

\* C8 as claimed. Break detection: deleting or reordering a middle block of
\* a valid chain of at least three blocks makes verification report
\* Compromised, Chain Break, at the first index whose block no longer
\* follows its stored predecessor.
C8_BreakDetectionAnyMove ==
    (MiddleDeleted \/ MiddleMoved) =>
        /\ BrokenLinks(verifyRes.logs) # {}
        /\ Compromised("Chain Break", Min(BrokenLinks(verifyRes.logs)) - 1)

\* C8 as amended. Break detection: deleting a middle block, or moving it to
\* a later place, makes verification report Compromised, Chain Break, at
\* the first index whose block no longer follows its stored predecessor;
\* moving it to an earlier place is reported as Data Tampering at the
\* block's new index.
C8_BreakDetection ==
    /\ (MiddleDeleted \/ (MiddleMoved /\ PlaceOf(store, tamper.id) > PlaceOf(tamper.pre, tamper.id))) =>
          /\ BrokenLinks(verifyRes.logs) # {}
          /\ Compromised("Chain Break", Min(BrokenLinks(verifyRes.logs)) - 1)
          /\ verifyRes.body.details.index = PlaceOf(tamper.pre, tamper.id) - 1
    /\ (MiddleMoved /\ PlaceOf(store, tamper.id) < PlaceOf(tamper.pre, tamper.id)) =>
          /\ Compromised("Data Tampering", PlaceOf(store, tamper.id) - 1)
          /\ verifyRes.body.details.id = tamper.id

\* C8 witness: the middle block of a valid three-block chain was deleted
\* and verification reported a chain break at index 1.
C8_Witness ==
    /\ MiddleDeleted
    /\ Len(tamper.pre) = 3
    /\ Compromised("Chain Break", 1)

\* C9. First failure only, tamper before break: the scanned list is in
\* ascending timestamp order; the response is Secure when no check fails,
\* and otherwise names the smallest index at which a check fails, as Data
\* Tampering when the hash check fails there (also when the link check
\* fails too), else as Chain Break; the blocks after that index do not
\* influence the response.
C9_FirstFailureOnly ==
    verifyRes.read =>
        LET logs == verifyRes.logs
        IN  /\ \A i, j \in 1..Len(logs) : i < j => SortKey(logs[i]) <= SortKey(logs[j])
            /\ IF Failing(logs) = {}
               THEN verifyRes.body.status = "Secure"
               ELSE LET m == Min(Failing(logs))
                    IN  /\ Compromised(IF HashFails(logs, m) THEN "Data Tampering"
                                       ELSE "Chain Break", m - 1)
                        /\ verifyRes.body.details.id = logs[m].id
                        /\ VerifyResponse(SubSeq(logs, 1, m)).body = verifyRes.body

\* C9 witness: both checks fail at the first failing index, blocks follow
\* it, and Data Tampering was reported there.
C9_Witness ==
    /\ verifyRes.read
    /\ Failing(verifyRes.logs) # {}
    /\ LET m == Min(Failing(verifyRes.logs))
       IN  /\ HashFails(verifyRes.logs, m)
           /\ LinkFails(verifyRes.logs, m)
           /\ m < Len(verifyRes.logs)
           /\ Compromised("Data Tampering", m - 1)

SecureShape ==
    /\ verifyRes.code = 200
    /\ DOMAIN verifyRes.body = {"status", "message"}
    /\ verifyRes.body.status = "Secure"

CompromisedShape ==
    /\ verifyRes.code = 400
    /\ DOMAIN verifyRes.body = {"status", "message", "details"}
    /\ verifyRes.body.status = "Compromised"
    /\ DOMAIN verifyRes.body.details = {"index", "type", "id"}
    /\ verifyRes.body.details.index \in 0..(Len(verifyRes.logs) - 1)
    /\ verifyRes.body.details.type \in {"Data Tampering", "Chain Break"}
    /\ verifyRes.body.details.id = verifyRes.logs[verifyRes.body.details.index + 1].id

ErrorShape ==
    /\ verifyRes.code = 500
    /\ DOMAIN verifyRes.body = {"message", "error"}

UniqueHashes(docs) ==
    \A i, j \in 1..Len(docs) : i # j => docs[i].hash # docs[j].hash

\* The insert request p is about to issue carries a hash that is stored.
PendingDuplicate(p) ==
    /\ pc[p] = "hashed"
    /\ DuplicateHash(store, NewBlock(call[p], nextId).hash)

\* C13. Digest uniqueness: no step leads to a store in which two blocks have
\* the same hash, and a logAction whose computed hash is already stored ends
\* without persisting, the store left as it was.
C13_DigestUniqueness ==
    [][/\ UniqueHashes(store')
       /\ \A p \in Procs :
             (PendingDuplicate(p) /\ pc'[p] = "idle") => store' = store]_vars

\* C13 witness: two blocks are stored and a logAction has computed, for a
\* third, the hash one of them carries.
C13_Witness ==
    /\ Len(store) = 2
    /\ \E p \in Procs : PendingDuplicate(p)

\* ------------------------------------------------ verification, repeated
\* The list a verification scanned holds exactly the blocks stored now.
ScannedStore(logs) == {logs[i] : i \in 1..Len(logs)} = Blocks /\ Len(logs) = Len(store)

\* C14. Verification is read-only and idempotent: a step that ends a verify
\* request leaves the store as it was, whatever the verdict, and when the
\* request before it scanned the very blocks that are stored now, the two
\* answers are the same.
C14_ReadOnlyIdempotent ==
    [][verifyRes' # verifyRes =>
          /\ store' = store
          /\ (verifyRes.read /\ verifyRes'.read /\ ScannedStore(verifyRes.logs)) =>
                verifyRes'.body = verifyRes.body]_vars

\* ------------------------------------------------------ malformed blocks
\* The document lacks one of the fields of a block.
Malformed(b) == \E f \in BlockFields : b[f] = Missing(f)

\* The blocks listed before place i pass both checks of the loop.
IntactBefore(logs, i) ==
    \A j \in 1..(i - 1) : ~HashFails(logs, j) /\ ~LinkFails(logs, j)

C11_NeverFailsCaller ==
    \A p \in Procs :
        /\ hd[p].stage = "back" => logActionReturn(hd[p].outcome) = "returned"
        /\ (hd[p].stage = "sent" /\ hd[p].calls > 0) =>
              /\ hd[p].outcome \in {"saved", "failed"}
              /\ hd[p].code = hd[p].path.code
              /\ hd[p].code \in 200..299

\* C11 witness: with two blocks stored, a handler has answered 201 after
\* its logAction call failed.
C11_Witness ==
    \E p \in Procs :
        /\ hd[p].stage = "sent"
        /\ hd[p].outcome = "failed"
        /\ hd[p].code = 201
        /\ Len(store) = 2

\* C16. Every mutating operation is audited: a handler that has changed a
\* record and answers with a success status has called logAction exactly
\* once before answering.
C16_EveryMutationAudited ==
    \A p \in Procs :
        (hd[p].stage = "sent" /\ hd[p].path.mutates /\ hd[p].code \in 200..299) =>
            hd[p].calls = 1

\* --------------------------------------------- what a verification would say
\* Every verification of these documents, whichever order the query gives
\* to equal timestamps, answers Secure.
AllSecure(docs) ==
    \A logs \in AscendingOrders(docs) : VerifyResponse(logs).body.status = "Secure"

\* This step ends the logAction call of request p with nothing stored.
FailedAppend(p) == pc[p] = "hashed" /\ pc'[p] = "idle" /\ nextId' = nextId

\* C15. Surviving entries stay verifiable: when logAction calls run one
\* after another and the insert of one of them fails and is swallowed, the
\* store and the tip are what they were before the call, and the blocks
\* that are stored verify as Secure.
C15_SurvivorsVerifiable ==
    [][\A p \in Procs :
          (FailedAppend(p) /\ ~overlapped /\ tampers = 0) =>
              /\ store' = store
              /\ TipCandidates(store') = TipCandidates(store)
              /\ AllSecure(store')]_vars

\* C20. Verification concurrent with an append: when one logAction call is
\* in flight on a valid chain built by calls that ran one after another,
\* and that call ends, a verification that reads the store before the end
\* (without the new block) and one that reads it after (with it) both
\* answer Secure.
C20_VerifyDuringAppend ==
    [][\A p \in Procs :
          (/\ InFlight = {p}
           /\ ~overlapped
           /\ tampers = 0
           /\ ValidChain(store)
           /\ pc'[p] = "idle") =>
              AllSecure(store) /\ AllSecure(store')]_vars

\* ------------------------------------------------------ the audit surface
\* C17. Admin-only audit surface: a request to a list route or to the
\* verify route reads the chain, and answers with blocks or a verdict, only
\* when it carries a valid token with role admin; without a token or with
\* an invalid one it is answered 401, with role staff or resident 403, and
\* the chain is not read.
C17_AdminOnly ==
    audit # NoAudit =>
        /\ audit.read => audit.cred = "admin"
        /\ audit.code \in {200, 400} => (audit.cred = "admin" /\ audit.read)
        /\ audit.cred \in {"none", "invalid"} => (audit.code = 401 /\ ~audit.read)
        /\ audit.cred \in {"staff", "resident"} => (audit.code = 403 /\ ~audit.read)

\* C17 witness: with blocks stored, a verify request with a staff token was
\* answered 403 and read nothing.
C17_Witness ==
    /\ Len(store) >= 2
    /\ audit.endpoint = "verify"
    /\ audit.cred = "staff"
    /\ audit.code = 403
    /\ ~audit.read

\* C12 -- Append-only log: across the operations of the API (the handlers'
\* logAction calls, listing, verification) every stored block stays in the
\* store at its place with every field unchanged, and the only step that
\* changes the collection is a logAction call inserting the one block it
\* built.
Persisted(old, new) ==
    /\ Len(old) <= Len(new)
    /\ \A i \in 1..Len(old) : new[i] = old[i]

C12_AppendOnly ==
    [][/\ Persisted(store, store')
       /\ store' # store =>
             \E p \in Procs :
                /\ pc[p] = "hashed"
                /\ pc'[p] = "idle"
                /\ store' = Append(store, NewBlock(call[p], nextId))]_vars

\* With the store full, an administrator's verification has read the chain.
C12_Witness ==
    /\ Len(store) = MaxBlocks
    /\ audit.endpoint = "verify"
    /\ audit.read
    /\ audit.cred = "admin"

\* C18 -- Listing order and pagination: a listing returns its blocks
\* ordered by timestamp in the direction the caller asked for (ascending or
\* descending), and for a fixed limit L on an unchanged store the pages
\* 1..ceil(n/L), each fetched by its own request, together contain each of
\* the n blocks exactly once.
Ordered(logs, order) ==
    \A i, j \in 1..Len(logs) :
        i < j => IF order = "asc"
                 THEN SortKey(logs[i]) <= SortKey(logs[j])
                 ELSE SortKey(logs[i]) >= SortKey(logs[j])

PageCount(n, L) == (n + L - 1) \div L

Occurrences(logs, b) == Cardinality({i \in 1..Len(logs) : logs[i] = b})

\* Every way the requests for pages 1..ceil(n/L) can be answered (each
\* request runs its own sort) hands out every document exactly once.
PagesCover(docs, L) ==
    LET pages == 1..PageCount(Len(docs), L)
    IN  \A sorted \in [pages -> DescendingOrders(docs)] :
            \A i \in 1..Len(docs) :
                Cardinality({k \in pages :
                    Occurrences(AuditLogsPage(sorted[k], [page |-> k, limit |-> L,
                                                          order |-> "desc"]),
                                docs[i]) = 1}) = 1

C18_ListingOrderPagination ==
    /\ (audit.endpoint = "list" /\ audit.read) =>
          Ordered(audit.body, audit.query.order)
    /\ \A L \in 1..MaxBlocks : PagesCover(store, L)

\* C21 -- Block self-consistency: every block logAction has stored carries
\* the SHA-256 of the canonical encoding of its own stored timestamp, user,
\* action, module, description and previousHash; the stored timestamp is the
\* one reading logAction took for that append; and no later step changes
\* the hash of a stored block.
SelfConsistent(b) == b.hash = SHA256(JSONstringify(dataToHash(b)))

dataToVerify(b) ==
    LET prevHash == IF b.previousHash = NoHash THEN GENESIS ELSE b.previousHash
    IN  << <<"timestamp", b.timestamp>>, <<"user", b.user>>, <<"action", b.action>>,
           <<"module", b.module>>, <<"description", b.description>>,
           <<"previousHash", prevHash>> >>

\* sha256Hex(JSON.stringify(dataToVerify))
ClientHash(b) == SHA256(JSONstringify(dataToVerify(b)))

\* C22 -- One canonical encoding: the append path and the two verify paths
\* (the verify endpoint, the client's verifyIntegrity) encode a block's six
\* hashable fields by the same function, so that for every stored field set
\* the digest recomputed by either verifier is the digest logAction computes
\* over it.
C22_OneCanonicalEncoding ==
    \A i \in 1..Len(store) :
        /\ JSONstringify(dataToVerify(store[i])) = JSONstringify(dataToHash(store[i]))
        /\ ClientHash(store[i]) = BlockHash(store[i])

\* The _id of the document inserted last when count documents were stored,
\* 0 for none.
LastPersisted(docs, count) == IF count = 0 THEN 0 ELSE docs[count].id

\* C23 -- Tip lookup: the block a logAction call uses as tip is the block
\* persisted most recently at the moment of its lookup, or the empty-chain
\* result when nothing was stored, for every sequence of completed appends
\* and every non-decreasing sequence of clock readings, equal readings for
\* consecutive appends included (the calls running one after another).
C23_TipLookup ==
    ~overlapped =>
        /\ \A i \in 1..Len(tipSeen) :
              tipSeen[i].tip = LastPersisted(store, tipSeen[i].count)
        /\ \A p \in InFlight :
              call[p].tip = LastPersisted(store, call[p].count)

\* The last edit changed one of the given content fields of a block of a
\* valid chain that has a successor, recomputing the block's hash, and a
\* verification has read the chain since.
Rehashed(fields) ==
    /\ tamper.kind = "rehash"
    /\ tamper.field \in fields
    /\ ValidChain(tamper.pre)
    /\ PlaceOf(tamper.pre, tamper.id) < Len(tamper.pre)
    /\ verifyRes.read

\* C24 as claimed -- Re-hashed tampering is caught at the successor: when
\* the content of block i of a valid chain (i not the last) is changed and
\* its hash recomputed over the changed content, verification reports
\* Compromised, Chain Break, at index i + 1.
C24_RehashCaughtAnyField ==
    Rehashed(ContentFields) =>
        Compromised("Chain Break", PlaceOf(tamper.pre, tamper.id))

\* C24 as amended -- Re-hashed tampering is caught at the successor: when
\* the user, action, module or description of block i of a valid chain (i
\* not the last) is changed, or its timestamp to a value that leaves the
\* block at index i, and its hash is recomputed over the changed content,
\* verification reports Compromised, Chain Break, at index i + 1, for the
\* block that followed the edited one.
C24_RehashCaughtAtSuccessor ==
    (/\ Rehashed(ContentFields)
     /\ tamper.field = "timestamp" => PlaceKept) =>
        /\ Compromised("Chain Break", PlaceOf(tamper.pre, tamper.id))
        /\ verifyRes.body.details.id =
              Sorted(tamper.pre)[PlaceOf(tamper.pre, tamper.id) + 1].id

\* C24 witness: the description of the first block of a valid three-block
\* chain was changed and its hash recomputed, and verification reported a
\* chain break at index 1.
C24_Witness ==
    /\ Rehashed({"description"})
    /\ Len(tamper.pre) = 3
    /\ PlaceOf(tamper.pre, tamper.id) = 1
    /\ verifyRes.logs[1].hash = BlockHash(verifyRes.logs[1])
    /\ verifyRes.logs[1].hash # Sorted(tamper.pre)[1].hash
    /\ Compromised("Chain Break", 1)

\* The first or the last block of a valid chain was deleted, and a
\* verification has read the chain since.
EndDeleted ==
    /\ tamper.kind = "delete"
    /\ ValidChain(tamper.pre)
    /\ PlaceOf(tamper.pre, tamper.id) \in {1, Len(tamper.pre)}
    /\ verifyRes.read

\* C25 -- Verification checks only self-hash and adjacent links: its verdict
\* depends neither on block 0 referencing the genesis constant nor on the
\* chain's length, so that removing any prefix or any suffix of a valid
\* chain (all blocks included) leaves the result Secure.
C25_TruncationSecure ==
    /\ EndDeleted => (SecureShape /\ verifyRes.logs = Sorted(store))
    /\ ValidChain(store) =>
          \A first \in 1..(Len(store) + 1), last \in 0..Len(store) :
              VerifyResponse(SubSeq(Sorted(store), first, last)).body.status = "Secure"

\* C25 witness: the genesis block of a valid three-block chain was deleted,
\* the listing now starts with a block that references a missing block, and
\* verification answered Secure.
C25_Witness ==
    /\ EndDeleted
    /\ Len(tamper.pre) = 3
    /\ PlaceOf(tamper.pre, tamper.id) = 1
    /\ verifyRes.logs[1].previousHash # GENESIS
    /\ verifyRes.body.status = "Secure"

\* verifyIntegrity's loop over the sorted chain: the positions (from 1) whose
\* recomputed digest differs from the stored hash.  There is no other check.
ClientInvalid(logs) == {i \in 1..Len(logs) : ClientHash(logs[i]) # logs[i].hash}

\* setVerifyResult({valid, invalid, firstInvalid}); firstInvalid is the
\* index (from 0) of the first invalid block, -1 standing for undefined.
verifyIntegrity(logs) ==
    [valid |-> Len(logs) - Cardinality(ClientInvalid(logs)),
     invalid |-> Cardinality(ClientInvalid(logs)),
     firstInvalid |-> IF ClientInvalid(logs) = {} THEN -1
                      ELSE Min(ClientInvalid(logs)) - 1]

\* C26 -- Client and server verifiers agree: on the same list of blocks the
\* client's verifyIntegrity reports zero invalid blocks exactly when the
\* server's verification answers Secure, and when both report a failure the
\* client's first invalid index is the server's failure index.
C26_VerifiersAgree ==
    verifyRes.read =>
        LET client == verifyIntegrity(verifyRes.logs)
        IN  /\ (client.invalid = 0) <=> (verifyRes.body.status = "Secure")
            /\ (client.invalid > 0 /\ verifyRes.body.status = "Compromised") =>
                  client.firstInvalid = verifyRes.body.details.index

\* The stored blocks whose hash the block b carries as previousHash.
LinkedFrom(b) == {j \in 1..Len(store) : store[j].hash = b.previousHash}

\* C27 -- Timestamp follows the link: logAction reads the tip before it
\* takes its timestamp, so under a non-decreasing clock every stored block
\* that does not reference the genesis constant has a timestamp greater than
\* or equal to that of the block whose hash it stores as previousHash, in
\* every interleaving of concurrent appends.
C27_TimestampFollowsLink ==
    \A i \in 1..Len(store) :
        store[i].previousHash # GENESIS =>
            /\ LinkedFrom(store[i]) # {}
            /\ \A j \in LinkedFrom(store[i]) :
                  /\ j < i
                  /\ store[i].timestamp >= store[j].timestamp

\* C27 witness: appends overlapped, one stored block carries the same
\* timestamp as the block it links to, and another a later one.
C27_Witness ==
    /\ overlapped
    /\ Len(store) = MaxBlocks
    /\ \E i \in 1..Len(store) : \E j \in LinkedFrom(store[i]) :
          store[i].timestamp = store[j].timestamp
    /\ \E i \in 1..Len(store) : \E j \in LinkedFrom(store[i]) :
          store[i].timestamp > store[j].timestamp

\* The DELETE request just answered came with a token of the given role for
\* a record that was in storage.
DeleteBy(role) == del.cred = role /\ del.was \in {"Active", "Archived"}

\* C28 -- Permanent deletion requires admin: a record of the Resident,
\* Official, Certificate, Blotter Case, Announcement or User collection
\* leaves storage only in a request whose token carries the role admin; the
\* same request from staff archives the record or is rejected, and from a
\* resident is rejected, the record staying in storage.
C28_PermanentDeleteAdminOnly ==
    [][/\ \A k \in Kinds :
             (records[k] # "removed" /\ records'[k] = "removed") =>
                 (del'.cred = "admin" /\ del'.kind = k)
       /\ (del = NoDelete /\ DeleteBy("staff")') =>
             \/ del'.code = 403 /\ records' = records
             \/ del'.code = 500 /\ records' = records
             \/ del'.code = 200 /\ records' = [records EXCEPT ![del'.kind] = "Archived"]
       /\ (del = NoDelete /\ DeleteBy("resident")') =>
             del'.code = 403 /\ records' = records
       /\ (del = NoDelete /\ del'.cred \in {"none", "invalid"}) =>
             del'.code = 401 /\ records' = records]_vars

\* C28 witness: staff asked for the permanent deletion of a certificate and
\* got it archived, after an admin had removed another record for good.
C28_Witness ==
    /\ DeleteBy("staff")
    /\ del.route = "DELETE /api/certificates/:id"
    /\ del.flag
    /\ del.was = "Active"
    /\ del.code = 200
    /\ records["Certificate"] = "Archived"
    /\ \E k \in Kinds : records[k] = "removed"

\* The credentials of the login request being answered match an active
\* account, of role resident on the resident endpoint.
LoginAllowed(l) ==
    \E a \in Accounts :
        /\ a.username = l.account
        /\ l.password
        /\ a.isActive
        /\ l.endpoint = "POST /api/auth/resident-login" => a.role = "resident"

\* C29 -- Login gating and audit: a login request issues a token and appends
\* a LOGIN block only when the credentials match and the account is active
\* (and, on the resident login endpoint, the role is resident); every
\* rejected login (bad credentials, inactive account, wrong role) issues no
\* token and leaves the audit chain unchanged.
C29_LoginGating ==
    [][(login = NoLogin /\ login' # NoLogin) =>
          /\ login'.token # NoToken =>
                /\ LoginAllowed(login')
                /\ login'.code = 200
                /\ login'.token.username = login'.account
          /\ store' # store =>
                /\ LoginAllowed(login')
                /\ Len(store') = Len(store) + 1
                /\ SubSeq(store', 1, Len(store)) = store
                /\ store'[Len(store')].action = "LOGIN"
                /\ store'[Len(store')].user = login'.account
          /\ ~LoginAllowed(login') =>
                /\ login'.token = NoToken
                /\ store' = store
                /\ login'.code \in {400, 403, 500}]_vars

\* C29 witness: after a login that appended its LOGIN block, a banned
\* resident with the right password was refused on the resident endpoint.
C29_Witness ==
    /\ login.endpoint = "POST /api/auth/resident-login"
    /\ login.account = "pedro"
    /\ login.password
    /\ login.code = 403
    /\ login.token = NoToken
    /\ \E i \in 1..Len(store) : store[i].action = "LOGIN" /\ store[i].user = "juan"

\* The creations of counted requests on a route from tick from up to, but
\* not including, tick to.
MadeIn(lim, route, from, to) ==
    {i \in 1..Len(lim.made[route]) :
        lim.made[route][i].at >= from /\ lim.made[route][i].at < to}

\* C30 -- Daily request limit, as claimed: within any 24-hour window,
\* requests from one rate-limit key that carry no valid admin or staff token
\* create at most 2 blotter cases and at most 2 document requests.
C30_AnyWindow ==
    \A route \in LimitedRoutes, t \in 0..MaxTicks :
        Cardinality(MadeIn(limiter, route, t, t + WindowTicks)) <= MaxHits

\* C30 -- Daily request limit, as the code has it: within one window of the
\* limiter (from the key's first counted request after the previous window
\* ended until the window's end, at most 24 hours later), requests from one
\* rate-limit key that carry no valid admin or staff token create at most 2
\* blotter cases and at most 2 document requests, each creation with at
\* most one CREATE audit block of the route's module; requests carrying a
\* valid admin or staff token are never counted or rejected by the limiters.
C30_PerLimiterWindow ==
    [][/\ \A route \in LimitedRoutes :
            LET now == MadeIn(limiter', route, limiter'.start[route], limiter'.reset[route])
            IN  /\ Cardinality(now) <= MaxHits
                /\ limiter'.reset[route] <= limiter'.start[route] + WindowTicks
                /\ \A i \in 1..Len(limiter'.made[route]) :
                      limiter'.made[route][i].at < limiter'.reset[route]
       /\ (limiter.last = NoLimited /\ limiter'.last # NoLimited) =>
            LET route == limiter'.last.route
                created == limiter'.last.code \in {200, 201}
            IN  /\ store' # store =>
                      /\ created
                      /\ Len(store') = Len(store) + 1
                      /\ SubSeq(store', 1, Len(store)) = store
                      /\ store'[Len(store')].action = "CREATE"
                      /\ store'[Len(store')].module = LimitedModule(route)
                /\ Len(limiter'.made[route]) <=
                      Len(limiter.made[route]) + (IF created THEN 1 ELSE 0)
                /\ limiter'.last.cred \in {"admin", "staff"} =>
                      /\ limiter'.last.code # 429
                      /\ limiter'.hits = limiter.hits
                      /\ limiter'.reset = limiter.reset
                      /\ limiter'.made = limiter.made]_vars

\* C30 witness: a third counted request in a window that already holds two
\* creations, one of them logged, is answered 429.
C30_Witness ==
    /\ limiter.last = [route |-> "POST /api/blotters", cred |-> "resident", code |-> 429]
    /\ limiter.now < limiter.reset["POST /api/blotters"]
    /\ Cardinality(MadeIn(limiter, "POST /api/blotters",
                          limiter.start["POST /api/blotters"],
                          limiter.reset["POST /api/blotters"])) = MaxHits
    /\ \E i \in 1..Len(limiter.made["POST /api/blotters"]) :
          limiter.made["POST /api/blotters"][i].logged
    /\ \E i \in 1..Len(store) : store[i].action = "CREATE" /\ store[i].module = "Blotter"
====
